---- MODULE Spec2Model ----
(***************************************************************************)
(* Model of the backtesting engine (src/src/backtesting/backtester.py) and *)
(* of the sizing rule of the strategies it drives.                         *)
(*                                                                         *)
(* Numbers.  The program computes with floats; the model computes with     *)
(* exact rationals [n |-> numerator, d |-> denominator], always in lowest  *)
(* terms with d > 0, so that equal values are equal records.  Floating     *)
(* point rounding is not modelled.                                         *)
(***************************************************************************)
EXTENDS Integers, Sequences, FiniteSets, TLC

\* ------------------------------------------------------------------ bounds

\* Number of bars of the price table.
MaxBars == 3
\* Number of times run() is called on the one Backtester.
MaxRuns == 2

\* ------------------------------------------------------- rational numbers

Abs(a) == IF a < 0 THEN -a ELSE a

RECURSIVE Gcd(_, _)
Gcd(a, b) == IF b = 0 THEN a ELSE Gcd(b, a % b)

\* n/d in lowest terms, d > 0 (d # 0 required).
R(n, d) ==
    LET g == Gcd(Abs(n), Abs(d))
        s == IF d < 0 THEN -1 ELSE 1
    IN  [n |-> s * (n \div g), d |-> s * (d \div g)]

Zero == R(0, 1)
One == R(1, 1)

RNeg(x) == [n |-> -x.n, d |-> x.d]

RAbs(x) == [n |-> Abs(x.n), d |-> x.d]

RAdd(x, y) ==
    LET g == Gcd(x.d, y.d)
        l == (x.d \div g) * y.d
    IN  R(x.n * (l \div x.d) + y.n * (l \div y.d), l)

RSub(x, y) == RAdd(x, RNeg(y))

RMul(x, y) ==
    LET g1 == Gcd(Abs(x.n), y.d)
        g2 == Gcd(Abs(y.n), x.d)
    IN  R((x.n \div g1) * (y.n \div g2), (x.d \div g2) * (y.d \div g1))

\* x / y, y # 0
RDiv(x, y) == RMul(x, R(y.d, y.n))

RLeq(x, y) == x.n * y.d <= y.n * x.d

RLt(x, y) == x.n * y.d < y.n * x.d

\* ------------------------------------------- floats that are not numbers

\* numpy's special values, written as fractions with denominator 0.  The
\* operators below follow IEEE arithmetic on them (signed zeros apart) and
\* are the operators above on everything else.
NaN == [n |-> 0, d |-> 0]
PosInf == [n |-> 1, d |-> 0]
NegInf == [n |-> -1, d |-> 0]

IsNaN(x) == x.d = 0 /\ x.n = 0
IsInf(x) == x.d = 0 /\ x.n # 0
IsFinite(x) == x.d # 0

\* -1, 0 or 1; 0 for NaN.
Sign(x) == IF x.n > 0 THEN 1 ELSE IF x.n < 0 THEN -1 ELSE 0

Signed(s, x) == IF s < 0 THEN [n |-> -x.n, d |-> x.d] ELSE x

XNeg(x) == [n |-> -x.n, d |-> x.d]

XAbs(x) == [n |-> Abs(x.n), d |-> x.d]

XAdd(x, y) ==
    IF IsNaN(x) \/ IsNaN(y) THEN NaN
    ELSE IF IsInf(x) /\ IsInf(y) THEN (IF x = y THEN x ELSE NaN)
    ELSE IF IsInf(x) THEN x
    ELSE IF IsInf(y) THEN y
    ELSE RAdd(x, y)

XSub(x, y) == XAdd(x, XNeg(y))

XMul(x, y) ==
    IF IsNaN(x) \/ IsNaN(y) THEN NaN
    ELSE IF IsInf(x) \/ IsInf(y)
         THEN (IF Sign(x) * Sign(y) = 0 THEN NaN
               ELSE Signed(Sign(x) * Sign(y), PosInf))
    ELSE RMul(x, y)

XDiv(x, y) ==
    IF IsNaN(x) \/ IsNaN(y) THEN NaN
    ELSE IF IsInf(y) THEN (IF IsInf(x) THEN NaN ELSE Zero)
    ELSE IF IsInf(x) THEN Signed(IF Sign(y) < 0 THEN -1 ELSE 1, x)
    ELSE IF y = Zero THEN (IF x = Zero THEN NaN ELSE Signed(Sign(x), PosInf))
    ELSE RDiv(x, y)

\* x <= y and x < y as floats compare: false when either is NaN.
XLeq(x, y) ==
    IF IsNaN(x) \/ IsNaN(y) THEN FALSE
    ELSE IF IsInf(x) THEN (x = NegInf \/ y = PosInf)
    ELSE IF IsInf(y) THEN y = PosInf
    ELSE RLeq(x, y)

XLt(x, y) == XLeq(x, y) /\ x # y

\* sign * sqrt(q), kept as the pair: q = 0 and q = NaN have sign 0.
Surd(sign, q) ==
    IF IsNaN(q) \/ q = Zero THEN [sign |-> 0, sq |-> q]
    ELSE [sign |-> sign, sq |-> XAbs(q)]

\* ----------------------------------------------------------------- inputs

\* The price column run() reads (its default argument).
PriceColumn == "close"

Signals == {-1, 0, 1}

Prices == {R(100, 1), R(120, 1)}

\* One bar of the price table handed to run().
Bars == [close : Prices]

Tables == UNION {[1..n -> Bars] : n \in 0..MaxBars}

\* The signal columns generate_signals can produce for a table.
SignalColumns(table) == [1..Len(table) -> Signals]

\* run(): the copy of the table with the strategy's signal column added,
\* which the loop walks.
WithSignals(table, signal) ==
    [k \in 1..Len(table) |-> [close |-> table[k].close, signal |-> signal[k]]]

\* Constructor arguments of the Backtester and of its strategy.
SmallConfigs ==
    [initial_capital : {R(10, 1)},
     commission : {Zero, R(1, 10)},
     slippage : {Zero, R(1, 10)},
     strategy_capital : {R(10, 1), R(20, 1)},
     position_size_pct : {Zero, R(1, 4), One}]

\* Scenario B of the specification: the defaults of the constructors.
ScenarioB ==
    [initial_capital |-> R(100000, 1),
     commission |-> R(1, 1000),
     slippage |-> R(1, 2000),
     strategy_capital |-> R(100000, 1),
     position_size_pct |-> R(1, 4)]

Configs == SmallConfigs \cup {ScenarioB}

\* -------------------------------------------------------------- the code

\* Mutant: the slippage moves the price in the trader's favour.
CalculateExecutionPriceFavourable(cfg, signal_price, side) ==
    IF side = "buy"
    THEN RMul(signal_price, RSub(One, cfg.slippage))
    ELSE RMul(signal_price, RAdd(One, cfg.slippage))

\* Backtester.calculate_execution_price
CalculateExecutionPrice(cfg, signal_price, side) ==
    IF side = "buy"
    THEN RMul(signal_price, RAdd(One, cfg.slippage))
    ELSE RMul(signal_price, RSub(One, cfg.slippage))

\* Backtester.calculate_commission_cost
CalculateCommissionCost(cfg, trade_value) == RMul(trade_value, cfg.commission)

\* calculate_position_size of the strategies: a fraction of the strategy's
\* own capital at the given price, signed by the signal.
CalculatePositionSize(cfg, signal, price) ==
    IF signal = 0
    THEN Zero
    ELSE LET position_value == RMul(cfg.strategy_capital, cfg.position_size_pct)
             quantity == RDiv(position_value, price)
         IN  RMul(RAbs(quantity), IF signal > 0 THEN One ELSE RNeg(One))

\* The run state a Backtester owns, as the constructor leaves it.
NewBacktester(cfg) ==
    [capital |-> cfg.initial_capital,
     positions |-> <<>>,
     trades |-> <<>>,
     equity_curve |-> <<>>]

\* The results table as run() sets it up before the loop: one row per bar,
\* every row at the defaults.
NewResults(cfg, table) ==
    [position |-> [k \in 1..Len(table) |-> 0],
     capital |-> [k \in 1..Len(table) |-> cfg.initial_capital],
     portfolio_value |-> [k \in 1..Len(table) |-> cfg.initial_capital]]

\* Mutant: the capital is not reset at the start of a run.
ResetRunKeepsCapital(cfg, s, table) ==
    [s EXCEPT
        !.positions = <<>>,
        !.trades = <<>>,
        !.equity_curve = <<>>,
        !.results = NewResults(cfg, table),
        !.current_position = 0]

\* run(), before the loop ("Initialize tracking"): the run state of the
\* Backtester s is reset and the loop's locals are initialised.
ResetRun(cfg, s, table) ==
    [s EXCEPT
        !.capital = cfg.initial_capital,
        !.positions = <<>>,
        !.trades = <<>>,
        !.equity_curve = <<>>,
        !.results = NewResults(cfg, table),
        !.current_position = 0]

\* Mutant: every bar is taken for a change of position.
PositionChangeAlways(signal, current_position) == TRUE

\* The bar's signal asks for a change of position.
PositionChange(signal, current_position) ==
    signal # 0 /\ signal # current_position

\* Mutant: the commission is left out of the test.
CanAffordNoCommission(capital, trade_value, commission_cost) ==
    RLeq(trade_value, capital)

\* Mutant: every opening trade is taken, whatever the capital.
CanAffordAlways(capital, trade_value, commission_cost) == TRUE

\* The capital covers the opening trade.
CanAfford(capital, trade_value, commission_cost) ==
    RLeq(RAdd(trade_value, commission_cost), capital)

\* The record of an opening trade.
OpenTrade(k, signal, quantity, execution_price, trade_value, commission_cost) ==
    [timestamp |-> k,
     side |-> IF signal > 0 THEN "buy" ELSE "sell",
     quantity |-> RAbs(quantity),
     price |-> execution_price,
     value |-> trade_value,
     commission |-> commission_cost]

\* Mutant: the opening leaves the position flag at 0.
OpenPositionFlagless(cfg, s, table, k) ==
    LET current_price == table[k].close
        signal == table[k].signal
        execution_price ==
            CalculateExecutionPrice(cfg, current_price,
                                    IF signal > 0 THEN "buy" ELSE "sell")
        quantity == CalculatePositionSize(cfg, signal, execution_price)
        trade_value == RMul(RAbs(quantity), execution_price)
        commission_cost == CalculateCommissionCost(cfg, trade_value)
    IN  IF CanAfford(s.capital, trade_value, commission_cost)
        THEN [s EXCEPT
                !.positions = (PriceColumn :> quantity) @@ s.positions,
                !.capital = RSub(s.capital, RAdd(trade_value, commission_cost)),
                !.trades = Append(s.trades,
                                  OpenTrade(k, signal, quantity, execution_price,
                                            trade_value, commission_cost))]
        ELSE s

\* run(), the branch "Opening position" at bar k of the table.
OpenPosition(cfg, s, table, k) ==
    LET current_price == table[k].close
        signal == table[k].signal
        execution_price ==
            CalculateExecutionPrice(cfg, current_price,
                                    IF signal > 0 THEN "buy" ELSE "sell")
        quantity == CalculatePositionSize(cfg, signal, execution_price)
        trade_value == RMul(RAbs(quantity), execution_price)
        commission_cost == CalculateCommissionCost(cfg, trade_value)
    IN  IF CanAfford(s.capital, trade_value, commission_cost)
        THEN [s EXCEPT
                !.positions = (PriceColumn :> quantity) @@ s.positions,
                !.current_position = signal,
                !.capital = RSub(s.capital, RAdd(trade_value, commission_cost)),
                !.trades = Append(s.trades,
                                  OpenTrade(k, signal, quantity, execution_price,
                                            trade_value, commission_cost))]
        ELSE s

\* run(), the branch "Exiting position" at bar k of the table.
ExitPosition(cfg, s, table, k) ==
    IF PriceColumn \in DOMAIN s.positions
    THEN LET current_price == table[k].close
             quantity == s.positions[PriceColumn]
             execution_price ==
                 CalculateExecutionPrice(cfg, current_price,
                                         IF quantity.n > 0 THEN "sell" ELSE "buy")
             trade_value == RMul(RAbs(quantity), execution_price)
             commission_cost == CalculateCommissionCost(cfg, trade_value)
             pnl == IF k > 1
                    THEN RMul(RSub(execution_price, table[k - 1].close), quantity)
                    ELSE Zero
         IN  [s EXCEPT
                !.capital = RAdd(s.capital, RSub(trade_value, commission_cost)),
                !.positions = [c \in DOMAIN s.positions \ {PriceColumn} |->
                                   s.positions[c]],
                !.current_position = 0,
                !.trades = Append(s.trades,
                                  [timestamp |-> k,
                                   side |-> "exit",
                                   quantity |-> RAbs(quantity),
                                   price |-> execution_price,
                                   value |-> trade_value,
                                   commission |-> commission_cost,
                                   pnl |-> pnl])]
    ELSE s

\* Mutant: a nonzero signal opens a position whether or not one is held.
TransitionPyramids(cfg, s, table, k) ==
    IF table[k].signal # 0 THEN OpenPosition(cfg, s, table, k) ELSE s

\* Mutant: a signal opposite to the held side turns the position over to
\* the other side.
TransitionReverses(cfg, s, table, k) ==
    LET signal == table[k].signal
    IN  IF PositionChange(signal, s.current_position)
        THEN IF s.current_position = 0
             THEN OpenPosition(cfg, s, table, k)
             ELSE [s EXCEPT
                     !.current_position = signal,
                     !.positions = [c \in DOMAIN s.positions |->
                                        RNeg(s.positions[c])]]
        ELSE s

\* run(), "Check for position changes" at bar k: the exit test is the elif
\* of the test for FLAT, nested in the test of PositionChange.
Transition(cfg, s, table, k) ==
    LET signal == table[k].signal
    IN  IF PositionChange(signal, s.current_position)
        THEN IF s.current_position = 0
             THEN OpenPosition(cfg, s, table, k)
             ELSE IF signal = 0 /\ s.current_position # 0
                  THEN ExitPosition(cfg, s, table, k)
                  ELSE s
        ELSE s

\* Mutant: the position is marked at the magnitude of its quantity.
PortfolioValueUnsigned(s, current_price) ==
    IF PriceColumn \in DOMAIN s.positions
    THEN RAdd(s.capital, RMul(RAbs(s.positions[PriceColumn]), current_price))
    ELSE s.capital

\* run(), "Calculate portfolio value": capital plus the open position
\* marked at the bar's price.
PortfolioValue(s, current_price) ==
    IF PriceColumn \in DOMAIN s.positions
    THEN RAdd(s.capital, RMul(s.positions[PriceColumn], current_price))
    ELSE s.capital

\* Mutant: the equity curve is fed the capital.
RecordBarCapital(s, table, k) ==
    LET portfolio_value == PortfolioValue(s, table[k].close)
    IN  [s EXCEPT
            !.results.position[k] = s.current_position,
            !.results.capital[k] = s.capital,
            !.results.portfolio_value[k] = portfolio_value,
            !.equity_curve = Append(s.equity_curve, s.capital)]

\* run(), the end of the loop body: row k of the results table and the
\* equity curve.
RecordBar(s, table, k) ==
    LET portfolio_value == PortfolioValue(s, table[k].close)
    IN  [s EXCEPT
            !.results.position[k] = s.current_position,
            !.results.capital[k] = s.capital,
            !.results.portfolio_value[k] = portfolio_value,
            !.equity_curve = Append(s.equity_curve, portfolio_value)]

\* Mutant: the trade log is emptied inside the loop.
BarStepClearsLog(cfg, s, table, k) ==
    RecordBar(Transition(cfg, [s EXCEPT !.trades = <<>>], table, k), table, k)

\* run(), one iteration of the loop over the bars.
BarStep(cfg, s, table, k) == RecordBar(Transition(cfg, s, table, k), table, k)

\* run(), after the loop: the equity curve becomes a column of the table
\* that is returned.
FinishResults(s) ==
    [position |-> s.results.position,
     capital |-> s.results.capital,
     portfolio_value |-> s.results.portfolio_value,
     equity_curve |-> s.equity_curve]

\* ------------------------------------------------------------ RiskMetrics

\* The default of periods_per_year.
PeriodsPerYear == 252

\* Series.dropna
DropNa(xs) == SelectSeq(xs, LAMBDA x : ~IsNaN(x))

RECURSIVE SumSeq(_)
SumSeq(xs) == IF xs = <<>> THEN Zero ELSE XAdd(Head(xs), SumSeq(Tail(xs)))

\* Series.mean: NaN for the empty series.
MeanOf(xs) == XDiv(SumSeq(xs), R(Len(xs), 1))

\* The square of Series.std (ddof = 1): NaN for fewer than two values.
VarOf(xs) ==
    IF Len(xs) <= 1
    THEN NaN
    ELSE LET m == MeanOf(xs)
             sq == [k \in 1..Len(xs) |-> XMul(XSub(xs[k], m), XSub(xs[k], m))]
         IN  XDiv(SumSeq(sq), R(Len(xs) - 1, 1))

\* Series.min and Series.max: NaN entries are skipped, NaN if none is left.
RECURSIVE MinOf(_)
MinOf(xs) ==
    IF xs = <<>> THEN NaN
    ELSE LET rest == MinOf(Tail(xs))
             x == Head(xs)
         IN  IF IsNaN(x) THEN rest
             ELSE IF IsNaN(rest) \/ XLeq(x, rest) THEN x ELSE rest

RECURSIVE MaxOf(_)
MaxOf(xs) ==
    IF xs = <<>> THEN NaN
    ELSE LET rest == MaxOf(Tail(xs))
             x == Head(xs)
         IN  IF IsNaN(x) THEN rest
             ELSE IF IsNaN(rest) \/ XLeq(rest, x) THEN x ELSE rest

\* (1 + returns).cumprod()
RECURSIVE CumProd(_, _)
CumProd(xs, k) ==
    IF k = 0 THEN One ELSE XMul(CumProd(xs, k - 1), XAdd(One, xs[k]))

Cumulative(xs) == [k \in 1..Len(xs) |-> CumProd(xs, k)]

\* The maximum of the whole series at every position, where the code takes
\* the maximum of the values so far.
ExpandingMaxWhole(xs) == [k \in 1..Len(xs) |-> MaxOf(xs)]

\* Series.expanding().max()
ExpandingMax(xs) == [k \in 1..Len(xs) |-> MaxOf(SubSeq(xs, 1, k))]

\* The series in ascending order, as np.percentile sorts it.
RECURSIVE Insert(_, _)
Insert(x, sorted) ==
    IF sorted = <<>> THEN <<x>>
    ELSE IF XLeq(x, Head(sorted)) THEN <<x>> \o sorted
    ELSE <<Head(sorted)>> \o Insert(x, Tail(sorted))

RECURSIVE Sorted(_)
Sorted(xs) == IF xs = <<>> THEN <<>> ELSE Insert(Head(xs), Sorted(Tail(xs)))

\* np.percentile(xs, q), q in percent, xs not empty: linear interpolation
\* between the two order statistics around position q/100 * (n - 1).
Percentile(xs, q) ==
    LET s == Sorted(xs)
        pos == RMul(RDiv(q, R(100, 1)), R(Len(xs) - 1, 1))
        lo == pos.n \div pos.d
        frac == RSub(pos, R(lo, 1))
    IN  IF lo + 2 > Len(s)
        THEN s[lo + 1]
        ELSE XAdd(s[lo + 1], XMul(frac, XSub(s[lo + 2], s[lo + 1])))

\* calculate_var (the module function), called with a Series.
CalculateVar(series, confidence_level) ==
    LET xs == DropNa(series)
    IN  IF Len(xs) = 0
        THEN Zero
        ELSE XAbs(Percentile(xs, RMul(RSub(One, confidence_level), R(100, 1))))

\* calculate_cvar with the tail taken at or below +VaR, where the code
\* takes it at or below -VaR.
CalculateCvarAboveZero(series, confidence_level) ==
    LET xs == DropNa(series)
    IN  IF Len(xs) = 0
        THEN Zero
        ELSE LET var == CalculateVar(xs, confidence_level)
                 threshold == var
                 tail_losses == SelectSeq(xs, LAMBDA x : XLeq(x, threshold))
             IN  IF Len(tail_losses) = 0
                 THEN var
                 ELSE XAbs(MeanOf(tail_losses))

\* calculate_cvar (the module function), called with a Series.
CalculateCvar(series, confidence_level) ==
    LET xs == DropNa(series)
    IN  IF Len(xs) = 0
        THEN Zero
        ELSE LET var == CalculateVar(xs, confidence_level)
                 threshold == XNeg(var)
                 tail_losses == SelectSeq(xs, LAMBDA x : XLeq(x, threshold))
             IN  IF Len(tail_losses) = 0
                 THEN var
                 ELSE XAbs(MeanOf(tail_losses))

\* RiskMetrics.__init__
RiskMetricsOf(series) == DropNa(series)

\* returns - risk_free_rate / periods_per_year
ExcessReturns(xs, risk_free_rate) ==
    [k \in 1..Len(xs) |-> XSub(xs[k], XDiv(risk_free_rate, R(PeriodsPerYear, 1)))]

\* RiskMetrics.calculate_sharpe_ratio, as sign and square.
CalculateSharpeRatio(xs, risk_free_rate) ==
    IF Len(xs) = 0
    THEN Surd(0, Zero)
    ELSE LET excess_returns == ExcessReturns(xs, risk_free_rate)
             m == MeanOf(excess_returns)
             v == VarOf(excess_returns)
         IN  IF v = Zero
             THEN Surd(0, Zero)
             ELSE Surd(Sign(m), XDiv(XMul(R(PeriodsPerYear, 1), XMul(m, m)), v))

\* RiskMetrics.calculate_sortino_ratio, as sign and square.
CalculateSortinoRatio(xs, risk_free_rate) ==
    IF Len(xs) = 0
    THEN Surd(0, Zero)
    ELSE LET excess_returns == ExcessReturns(xs, risk_free_rate)
             downside_returns == SelectSeq(excess_returns, LAMBDA x : XLt(x, Zero))
             m == MeanOf(excess_returns)
             downside_var == XMul(R(PeriodsPerYear, 1), VarOf(downside_returns))
         IN  IF Len(downside_returns) = 0 \/ VarOf(downside_returns) = Zero
             THEN Surd(0, Zero)
             ELSE IF downside_var = Zero
             THEN Surd(0, Zero)
             ELSE Surd(Sign(m), XDiv(XMul(R(PeriodsPerYear, 1), XMul(m, m)),
                                     downside_var))

\* RiskMetrics.calculate_max_drawdown
CalculateMaxDrawdown(xs) ==
    IF Len(xs) = 0
    THEN Zero
    ELSE LET cumulative == Cumulative(xs)
             running_max == ExpandingMax(cumulative)
             drawdown == [k \in 1..Len(xs) |->
                             XDiv(XSub(cumulative[k], running_max[k]), running_max[k])]
         IN  XAbs(MinOf(drawdown))

\* RiskMetrics.calculate_calmar_ratio
CalculateCalmarRatio(xs) ==
    IF Len(xs) = 0
    THEN Zero
    ELSE LET annual_return == XMul(MeanOf(xs), R(PeriodsPerYear, 1))
             max_dd == CalculateMaxDrawdown(xs)
         IN  IF max_dd = Zero THEN Zero ELSE XDiv(annual_return, max_dd)

\* RiskMetrics.get_all_metrics; the ratios and the volatility, which are
\* square roots, as sign and square.
GetAllMetrics(xs, risk_free_rate) ==
    [sharpe_ratio |-> CalculateSharpeRatio(xs, risk_free_rate),
     sortino_ratio |-> CalculateSortinoRatio(xs, risk_free_rate),
     max_drawdown |-> CalculateMaxDrawdown(xs),
     calmar_ratio |-> CalculateCalmarRatio(xs),
     var_95 |-> CalculateVar(xs, R(95, 100)),
     cvar_95 |-> CalculateCvar(xs, R(95, 100)),
     volatility |-> Surd(1, XMul(VarOf(xs), R(PeriodsPerYear, 1))),
     annual_return |-> XMul(MeanOf(xs), R(PeriodsPerYear, 1))]

\* ---------------------------------------------------- performance metrics

\* t.get('pnl', 0) > 0
HasPositivePnl(t) == "pnl" \in DOMAIN t /\ XLt(Zero, t.pnl)

\* 'pnl' in t and t['pnl'] != 0
HasNonzeroPnl(t) == "pnl" \in DOMAIN t /\ t.pnl # Zero

\* _calculate_win_rate with every trade in the denominator, where the code
\* counts the trades that carry a nonzero pnl.
CalculateWinRateOverAll(log) ==
    IF Len(log) < 2
    THEN Zero
    ELSE LET winning_trades == Len(SelectSeq(log, HasPositivePnl))
             total_trades_with_pnl == Len(log)
         IN  IF total_trades_with_pnl = 0
             THEN Zero
             ELSE R(winning_trades, total_trades_with_pnl)

\* Backtester._calculate_win_rate over the trade log.
CalculateWinRate(log) ==
    IF Len(log) < 2
    THEN Zero
    ELSE LET winning_trades == Len(SelectSeq(log, HasPositivePnl))
             total_trades_with_pnl == Len(SelectSeq(log, HasNonzeroPnl))
         IN  IF total_trades_with_pnl = 0
             THEN Zero
             ELSE R(winning_trades, total_trades_with_pnl)

\* Series.pct_change of a column: the first entry is missing, the others
\* are the change from the entry before as a fraction of it.
PctChange(xs) ==
    [k \in 1..Len(xs) |->
        IF k = 1 THEN NaN ELSE XSub(XDiv(xs[k], xs[k - 1]), One)]

\* run(), after the loop: the returns column of the table that is returned.
WithReturns(res) == res @@ [returns |-> PctChange(res.portfolio_value)]

\* The mapping {}.
EmptyMapping == [key \in {} |-> Zero]

\* get_performance_metrics that looks at the returns column without
\* dropping its missing values.
GetPerformanceMetricsKeepsNa(c, log, res) ==
    LET rs == res.returns
    IN  IF Len(rs) = 0
        THEN EmptyMapping
        ELSE LET last == res.portfolio_value[Len(res.portfolio_value)]
                 total_return ==
                     XMul(XSub(XDiv(last, c.initial_capital), One), R(100, 1))
             IN  [total_return |-> total_return,
                  num_trades |-> Len(log),
                  win_rate |-> CalculateWinRate(log)]
                 @@ GetAllMetrics(RiskMetricsOf(rs), Zero)

\* Backtester.get_performance_metrics(results), the Backtester having
\* configuration c and trade log "log".
GetPerformanceMetrics(c, log, res) ==
    LET rs == DropNa(res.returns)
    IN  IF Len(rs) = 0
        THEN EmptyMapping
        ELSE LET last == res.portfolio_value[Len(res.portfolio_value)]
                 total_return ==
                     XMul(XSub(XDiv(last, c.initial_capital), One), R(100, 1))
             IN  [total_return |-> total_return,
                  num_trades |-> Len(log),
                  win_rate |-> CalculateWinRate(log)]
                 @@ GetAllMetrics(RiskMetricsOf(rs), Zero)

\* ------------------------------------------------------ PortfolioOptimizer

\* The annualisation factor of the optimizer.
TradingDays == 252

\* The columns of a returns matrix.
Assets == {"A", "B"}

\* DataFrame.cov, one entry: the sample covariance (ddof = 1) of two
\* columns, NaN for fewer than two rows.
CovOf(xs, ys) ==
    IF Len(xs) <= 1
    THEN NaN
    ELSE LET mx == MeanOf(xs)
             my == MeanOf(ys)
             prod == [k \in 1..Len(xs) |-> XMul(XSub(xs[k], mx), XSub(ys[k], my))]
         IN  XDiv(SumSeq(prod), R(Len(xs) - 1, 1))

\* calculate_covariance_matrix
CalculateCovarianceMatrix(rets) ==
    [a \in Assets |-> [b \in Assets |->
        XMul(CovOf(rets[a], rets[b]), R(TradingDays, 1))]]

\* calculate_expected_returns
CalculateExpectedReturns(rets) ==
    [a \in Assets |-> XMul(MeanOf(rets[a]), R(TradingDays, 1))]

\* np.sqrt, as sign and square: NaN for a negative number.
SqrtOf(q) == IF XLt(q, Zero) THEN Surd(0, NaN) ELSE Surd(1, q)

\* portfolio_performance: the return and, as sign and square, the
\* volatility of a weight vector.
PortfolioPerformance(weights, expected_returns, cov_matrix) ==
    LET portfolio_return ==
            XAdd(XMul(expected_returns["A"], weights["A"]),
                 XMul(expected_returns["B"], weights["B"]))
        row(a) == XAdd(XMul(cov_matrix[a]["A"], weights["A"]),
                       XMul(cov_matrix[a]["B"], weights["B"]))
        portfolio_variance ==
            XAdd(XMul(weights["A"], row("A")), XMul(weights["B"], row("B")))
    IN  [portfolio_return |-> portfolio_return,
         portfolio_variance |-> portfolio_variance,
         portfolio_volatility |-> SqrtOf(portfolio_variance)]

\* (portfolio_return - risk_free_rate) / portfolio_volatility, as sign and
\* square.
SharpeOf(perf, risk_free_rate) ==
    LET excess == XSub(perf.portfolio_return, risk_free_rate)
    IN  IF IsNaN(perf.portfolio_volatility.sq)
        THEN Surd(0, NaN)
        ELSE Surd(Sign(excess), XDiv(XMul(excess, excess), perf.portfolio_variance))

\* optimize_max_sharpe, from the solver's return on; solved is what
\* minimize() returned.
OptimizeMaxSharpe(rets, risk_free_rate, solved) ==
    LET expected_returns == CalculateExpectedReturns(rets)
        cov_matrix == CalculateCovarianceMatrix(rets)
        optimal_weights == solved.x
        perf == PortfolioPerformance(optimal_weights, expected_returns, cov_matrix)
    IN  [weights |-> optimal_weights,
         expected_return |-> perf.portfolio_return,
         volatility |-> perf.portfolio_volatility,
         sharpe_ratio |-> SharpeOf(perf, risk_free_rate)]

\* optimize_min_volatility, from the solver's return on.
OptimizeMinVolatility(rets, solved) ==
    LET expected_returns == CalculateExpectedReturns(rets)
        cov_matrix == CalculateCovarianceMatrix(rets)
        optimal_weights == solved.x
        perf == PortfolioPerformance(optimal_weights, expected_returns, cov_matrix)
    IN  [weights |-> optimal_weights,
         expected_return |-> perf.portfolio_return,
         volatility |-> perf.portfolio_volatility]

\* Whole numbers that are squares, and their roots.
IsSquare(n) == \E k \in 0..n : k * k = n

RootOf(n) == CHOOSE k \in 0..n : k * k = n

\* The rationals whose square root is a rational, and that root.
HasRoot(q) == q.n >= 0 /\ IsSquare(q.n) /\ IsSquare(q.d)

RSqrt(q) == R(RootOf(q.n), RootOf(q.d))

\* The determinant of the covariance matrix: np.linalg.inv raises
\* LinAlgError exactly when it is 0.
Determinant(cov_matrix) ==
    RSub(RMul(cov_matrix["A"]["A"], cov_matrix["B"]["B"]),
         RMul(cov_matrix["A"]["B"], cov_matrix["B"]["A"]))

\* np.sqrt(np.diag(cov_matrix)), in units of the volatility of asset A (the
\* unit cancels when the weights are normalised).
VolsOf(cov_matrix) ==
    [a \in Assets |-> RSqrt(RDiv(cov_matrix[a][a], cov_matrix["A"]["A"]))]

\* risk_parity_weights with weights proportional to the volatilities, where
\* the code takes their inverses.
RiskParityWeightsByVolatility(rets) ==
    LET cov_matrix == CalculateCovarianceMatrix(rets)
    IN  IF Determinant(cov_matrix) = Zero
        THEN [raised |-> "LinAlgError"]
        ELSE LET vols == VolsOf(cov_matrix)
                 inv_vols == vols
                 total == RAdd(inv_vols["A"], inv_vols["B"])
             IN  [weights |-> [a \in Assets |-> RDiv(inv_vols[a], total)]]

\* risk_parity_weights: the weights it returns, or the error it raises.
RiskParityWeights(rets) ==
    LET cov_matrix == CalculateCovarianceMatrix(rets)
    IN  IF Determinant(cov_matrix) = Zero
        THEN [raised |-> "LinAlgError"]
        ELSE LET vols == VolsOf(cov_matrix)
                 inv_vols == [a \in Assets |-> RDiv(One, vols[a])]
                 total == RAdd(inv_vols["A"], inv_vols["B"])
             IN  [weights |-> [a \in Assets |-> RDiv(inv_vols[a], total)]]

\* ------------------------------------------------------- position sizing

\* The argument that is not supplied (Python's None).
None == [none |-> TRUE]

\* x / y of two Python floats: division by zero raises.
PyDiv(x, y) ==
    IF y = Zero THEN [raised |-> "ZeroDivisionError"] ELSE [value |-> RDiv(x, y)]

\* x / y when x is a numpy float: division by zero gives inf or nan.
NpDiv(x, y) == [value |-> XDiv(x, y)]

RMin(x, y) == IF RLeq(x, y) THEN x ELSE y

RMax(x, y) == IF RLeq(x, y) THEN y ELSE x

\* np.clip(x, lo, hi)
Clip(x, lo, hi) == RMin(RMax(x, lo), hi)

\* KellyCriterion.calculate_size without the cap at 50% in the classic
\* formula.
KellySizeUncapped(fraction, cap, price, volatility, expected_return, win_probability, win_loss_ratio) ==
    IF expected_return # None /\ volatility # None
    THEN IF RLt(Zero, volatility)
         THEN LET kelly_fraction ==
                      Clip(RMul(RDiv(expected_return, RMul(volatility, volatility)),
                                fraction),
                           Zero, R(1, 2))
              IN  NpDiv(RMul(cap, kelly_fraction), price)
         ELSE PyDiv(RMul(cap, Zero), price)
    ELSE LET q == RSub(One, win_probability)
             kelly_fraction ==
                 IF RLt(Zero, win_loss_ratio)
                 THEN RMul(RMax(Zero,
                                RDiv(RSub(RMul(win_probability, win_loss_ratio), q),
                                     win_loss_ratio)),
                           fraction)
                 ELSE Zero
         IN  PyDiv(RMul(cap, kelly_fraction), price)

\* KellyCriterion(fraction).calculate_size(capital, price, volatility,
\* expected_return, win_probability, win_loss_ratio): the quantity it
\* returns, or the error it raises.
KellySize(fraction, cap, price, volatility, expected_return, win_probability, win_loss_ratio) ==
    IF expected_return # None /\ volatility # None
    THEN IF RLt(Zero, volatility)
         THEN LET kelly_fraction ==
                      Clip(RMul(RDiv(expected_return, RMul(volatility, volatility)),
                                fraction),
                           Zero, R(1, 2))
              IN  NpDiv(RMul(cap, kelly_fraction), price)
         ELSE PyDiv(RMul(cap, Zero), price)
    ELSE LET q == RSub(One, win_probability)
             kelly_fraction ==
                 IF RLt(Zero, win_loss_ratio)
                 THEN RMul(RMin(RMax(Zero,
                                     RDiv(RSub(RMul(win_probability, win_loss_ratio), q),
                                          win_loss_ratio)),
                                R(1, 2)),
                           fraction)
                 ELSE Zero
         IN  PyDiv(RMul(cap, kelly_fraction), price)

\* RiskParity(target_volatility).calculate_size(capital, price, volatility,
\* portfolio_volatility=...); the quantity has the factor sqrt(252) and is
\* given as sign and square.
RiskParitySize(target_volatility, cap, price, volatility, portfolio_volatility) ==
    IF volatility = None \/ volatility = Zero
    THEN [value |-> Surd(0, Zero)]
    ELSE LET vol_ratio ==
                 IF portfolio_volatility # None /\ RLt(Zero, portfolio_volatility)
                 THEN RDiv(target_volatility, portfolio_volatility)
                 ELSE One
             \* risk_weight / sqrt(252) and position_value / sqrt(252)
             risk_weight == RMul(RDiv(One, volatility), vol_ratio)
             position_value == RMul(RMul(cap, risk_weight), R(1, 10))
             quantity == XDiv(position_value, price)
         IN  [value |-> Surd(Sign(quantity),
                             XMul(R(PeriodsPerYear, 1), XMul(quantity, quantity)))]

\* FixedFractional(fraction).calculate_size(capital, price)
FixedFractionalSize(fraction, cap, price) == PyDiv(RMul(cap, fraction), price)

\* ------------------------------------------- one Backtester, run in turn

VARIABLES
    cfg,               \* the constructor arguments
    data,              \* the price table
    signals,           \* the signal column the strategy generates for it
    capital,           \* self.capital
    positions,         \* self.positions
    trades,            \* self.trades
    equity_curve,      \* self.equity_curve
    results,           \* run()'s results table
    current_position,  \* run()'s local
    i,                 \* bars of the current run already processed
    pc,                \* "idle" outside run(), "loop" inside
    runs,              \* calls of run() so far
    returned,          \* what each finished call returned, in call order
    par,               \* the Backtesters of the concurrent backtests
    price_column,      \* the price_column argument of run()
    returns,           \* the return series handed to RiskMetrics
    metrics,           \* what the metrics call under check returned
    opt,               \* the optimizer's inputs, solver outcome and result
    sizing             \* the sizing policy, its arguments and what it returned

vars == <<cfg, data, signals, capital, positions, trades, equity_curve, results,
          current_position, i, pc, runs, returned, par,
          price_column, returns, metrics, opt, sizing>>

\* The variables the backtest specifications leave alone.
analytics == <<returns, metrics, opt, sizing>>

\* The run state as one record, as the operators above take it.
RunState ==
    [capital |-> capital,
     positions |-> positions,
     trades |-> trades,
     equity_curve |-> equity_curve,
     results |-> results,
     current_position |-> current_position]

\* The table run() walks.
Table == WithSignals(data, signals)

SetRunState(s) ==
    /\ capital' = s.capital
    /\ positions' = s.positions
    /\ trades' = s.trades
    /\ equity_curve' = s.equity_curve
    /\ results' = s.results
    /\ current_position' = s.current_position

Init ==
    /\ cfg \in Configs
    /\ data \in Tables
    /\ signals \in SignalColumns(data)
    /\ capital = NewBacktester(cfg).capital
    /\ positions = NewBacktester(cfg).positions
    /\ trades = NewBacktester(cfg).trades
    /\ equity_curve = NewBacktester(cfg).equity_curve
    /\ results = NewResults(cfg, <<>>)
    /\ current_position = 0
    /\ i = 0
    /\ pc = "idle"
    /\ runs = 0
    /\ returned = <<>>
    /\ par = <<>>
    /\ price_column = PriceColumn
    /\ returns = <<>>
    /\ metrics = <<>>
    /\ opt = <<>>
    /\ sizing = <<>>

\* run() is called: signals are in the table, the run state is reset.
RunBegin ==
    /\ pc = "idle"
    /\ runs < MaxRuns
    /\ SetRunState(ResetRun(cfg, RunState, Table))
    /\ i' = 0
    /\ pc' = "loop"
    /\ runs' = runs + 1
    /\ UNCHANGED <<cfg, data, signals, returned, par, price_column, analytics>>

\* One iteration of run()'s loop.
Bar ==
    /\ pc = "loop"
    /\ i < Len(data)
    /\ SetRunState(BarStep(cfg, RunState, Table, i + 1))
    /\ i' = i + 1
    /\ UNCHANGED <<cfg, data, signals, pc, runs, returned, par, price_column,
                   analytics>>

\* run() returns its results table; the trade log stays on the Backtester.
RunReturn ==
    /\ pc = "loop"
    /\ i = Len(data)
    /\ returned' = Append(returned,
                          [results |-> FinishResults(RunState), trades |-> trades])
    /\ pc' = "idle"
    /\ UNCHANGED <<cfg, data, signals, capital, positions, trades, equity_curve, results,
                   current_position, i, runs, par, price_column, analytics>>

Next == RunBegin \/ Bar \/ RunReturn

Spec == Init /\ [][Next]_vars

TypeOK ==
    /\ pc \in {"idle", "loop", "raised"}
    /\ i \in 0..Len(data)
    /\ current_position \in Signals
    /\ runs \in 0..MaxRuns

\* -------------------------------- two Backtesters, one shared price table

\* Number of bars of the shared price table.
MaxParBars == 2

Backtesters == {1, 2}

ParTables == UNION {[1..n -> Bars] : n \in 0..MaxParBars}

ParConfigs ==
    {c \in SmallConfigs : /\ c.commission = R(1, 10)
                          /\ c.slippage = R(1, 10)
                          /\ c.position_size_pct = R(1, 4)}

\* A Backtester as its constructor leaves it, with the locals of run() at
\* their defaults.
Constructed(c) ==
    [capital |-> NewBacktester(c).capital,
     positions |-> NewBacktester(c).positions,
     trades |-> NewBacktester(c).trades,
     equity_curve |-> NewBacktester(c).equity_curve,
     results |-> NewResults(c, <<>>),
     current_position |-> 0]

\* run() from its first line to its return, alone: the run state after the
\* first k bars of the table.
RECURSIVE RunBars(_, _, _)
RunBars(c, table, k) ==
    IF k = 0
    THEN ResetRun(c, Constructed(c), table)
    ELSE BarStep(c, RunBars(c, table, k - 1), table, k)

\* What run() returns, and the trade log it leaves, when it runs alone.
RunAlone(c, table) ==
    LET s == RunBars(c, table, Len(table))
    IN  [results |-> FinishResults(s), trades |-> s.trades]

\* Each backtest owns a Backtester (s), its strategy's signals and the
\* position of its run(); mixed records that one of its bars was processed
\* while the other backtest was inside its loop.
ParInit ==
    /\ data \in ParTables
    /\ \E c \in [Backtesters -> ParConfigs],
          sg \in [Backtesters -> SignalColumns(data)] :
          par = [b \in Backtesters |->
                    [cfg |-> c[b],
                     signals |-> sg[b],
                     s |-> Constructed(c[b]),
                     i |-> 0,
                     pc |-> "idle",
                     mixed |-> FALSE,
                     out |-> <<>>]]
    /\ cfg = ScenarioB
    /\ signals = [k \in 1..Len(data) |-> 0]
    /\ capital = NewBacktester(cfg).capital
    /\ positions = NewBacktester(cfg).positions
    /\ trades = NewBacktester(cfg).trades
    /\ equity_curve = NewBacktester(cfg).equity_curve
    /\ results = NewResults(cfg, <<>>)
    /\ current_position = 0
    /\ i = 0
    /\ pc = "idle"
    /\ runs = 0
    /\ returned = <<>>
    /\ price_column = PriceColumn
    /\ returns = <<>>
    /\ metrics = <<>>
    /\ opt = <<>>
    /\ sizing = <<>>

ParTable(b) == WithSignals(data, par[b].signals)

ParFrame ==
    UNCHANGED <<cfg, data, signals, capital, positions, trades, equity_curve,
                results, current_position, i, pc, runs, returned,
                price_column, analytics>>

\* Backtest b calls run() on its Backtester.
ParBegin(b) ==
    /\ par[b].pc = "idle"
    /\ par' = [par EXCEPT
                  ![b].s = ResetRun(par[b].cfg, par[b].s, ParTable(b)),
                  ![b].i = 0,
                  ![b].pc = "loop"]
    /\ ParFrame

\* Mutant: the capital is one attribute shared by all Backtesters.
ParBarShared(b) ==
    /\ par[b].pc = "loop"
    /\ par[b].i < Len(data)
    /\ LET s == BarStep(par[b].cfg, par[b].s, ParTable(b), par[b].i + 1)
       IN  par' = [o \in Backtesters |->
                      IF o = b
                      THEN [par[b] EXCEPT !.s = s, !.i = par[b].i + 1]
                      ELSE [par[o] EXCEPT !.s.capital = s.capital]]
    /\ ParFrame

\* One iteration of the loop of backtest b: it reads the shared table and
\* writes the run state of its own Backtester.
ParBar(b) ==
    /\ par[b].pc = "loop"
    /\ par[b].i < Len(data)
    /\ par' = [par EXCEPT
                  ![b].s = BarStep(par[b].cfg, par[b].s, ParTable(b), par[b].i + 1),
                  ![b].i = par[b].i + 1,
                  ![b].mixed = par[b].mixed
                               \/ \E o \in Backtesters \ {b} :
                                      par[o].pc = "loop" /\ par[o].i > 0]
    /\ ParFrame

\* run() of backtest b returns.
ParReturn(b) ==
    /\ par[b].pc = "loop"
    /\ par[b].i = Len(data)
    /\ par' = [par EXCEPT
                  ![b].out = [results |-> FinishResults(par[b].s),
                              trades |-> par[b].s.trades],
                  ![b].pc = "done"]
    /\ ParFrame

ParNext == \E b \in Backtesters : ParBegin(b) \/ ParBar(b) \/ ParReturn(b)

SpecPar == ParInit /\ [][ParNext]_vars

\* ------------------------------------------- run() and its price_column

\* The columns of the price table.
DataColumns == {"close"}

\* The columns of run()'s results table: those of the price table and the
\* four run() adds before its loop.
ResultColumns == DataColumns \cup {"signal", "position", "capital", "portfolio_value"}

\* The price_column arguments tried: the table's column and an unknown one.
PriceColumnArgs == {"close", "price"}

ColInit ==
    /\ cfg \in ParConfigs
    /\ data \in Tables
    /\ signals \in SignalColumns(data)
    /\ price_column \in PriceColumnArgs
    /\ capital = NewBacktester(cfg).capital
    /\ positions = NewBacktester(cfg).positions
    /\ trades = NewBacktester(cfg).trades
    /\ equity_curve = NewBacktester(cfg).equity_curve
    /\ results = NewResults(cfg, <<>>)
    /\ current_position = 0
    /\ i = 0
    /\ pc = "idle"
    /\ runs = 0
    /\ returned = <<>>
    /\ par = <<>>
    /\ returns = <<>>
    /\ metrics = <<>>
    /\ opt = <<>>
    /\ sizing = <<>>

\* One iteration of run()'s loop: the row's lookup of price_column raises
\* KeyError out of run() when the results table has no such column.
ColBar ==
    \/ /\ price_column \in ResultColumns
       /\ Bar
    \/ /\ price_column \notin ResultColumns
       /\ pc = "loop"
       /\ i < Len(data)
       /\ pc' = "raised"
       /\ UNCHANGED <<cfg, data, signals, capital, positions, trades, equity_curve,
                      results, current_position, i, runs, returned, par,
                      price_column, analytics>>

ColNext == RunBegin \/ ColBar \/ RunReturn

SpecCol == ColInit /\ [][ColNext]_vars

\* ------------------------------------------- RiskMetrics over a series

\* Length of the return series.
MaxReturns == 4

\* The values of a return series; NaN is what dropna removes.
ReturnInputs == {R(-1, 1), R(-1, 2), Zero, R(1, 2), NaN}

ReturnSeries == UNION {[1..n -> ReturnInputs] : n \in 0..MaxReturns}

RiskFreeRates == {Zero, R(63, 50)}

ConfidenceLevels == {R(1, 2), R(9, 10), R(95, 100)}

\* The Backtester's variables, untouched by the analytics.  Each behaviour
\* of the analytics specifications makes one call, on a fresh object.
BacktestIdle ==
    /\ cfg = ScenarioB
    /\ data = <<>>
    /\ signals = <<>>
    /\ capital = NewBacktester(cfg).capital
    /\ positions = NewBacktester(cfg).positions
    /\ trades = NewBacktester(cfg).trades
    /\ equity_curve = NewBacktester(cfg).equity_curve
    /\ results = NewResults(cfg, <<>>)
    /\ current_position = 0
    /\ i = 0
    /\ pc = "idle"
    /\ runs = 0
    /\ returned = <<>>
    /\ par = <<>>
    /\ price_column = PriceColumn

backtest == <<cfg, data, signals, capital, positions, trades, equity_curve,
              results, current_position, i, pc, runs, returned, par,
              price_column>>

RiskInit ==
    /\ BacktestIdle
    /\ returns \in ReturnSeries
    /\ metrics = [call |-> "none"]
    /\ opt = <<>>
    /\ sizing = <<>>

RiskFrame == UNCHANGED <<backtest, returns, opt, sizing>>

\* RiskMetrics(returns).calculate_sharpe_ratio(risk_free_rate)
SharpeCall ==
    /\ metrics.call = "none"
    /\ \E rf \in RiskFreeRates :
          metrics' = [call |-> "calculate_sharpe_ratio",
                      risk_free_rate |-> rf,
                      value |-> CalculateSharpeRatio(RiskMetricsOf(returns), rf)]
    /\ RiskFrame

\* RiskMetrics(returns).calculate_sortino_ratio(risk_free_rate)
SortinoCall ==
    /\ metrics.call = "none"
    /\ \E rf \in RiskFreeRates :
          metrics' = [call |-> "calculate_sortino_ratio",
                      risk_free_rate |-> rf,
                      value |-> CalculateSortinoRatio(RiskMetricsOf(returns), rf)]
    /\ RiskFrame

\* RiskMetrics(returns).calculate_max_drawdown()
MaxDrawdownCall ==
    /\ metrics.call = "none"
    /\ metrics' = [call |-> "calculate_max_drawdown",
                   value |-> CalculateMaxDrawdown(RiskMetricsOf(returns))]
    /\ RiskFrame

\* RiskMetrics(returns).calculate_calmar_ratio()
CalmarCall ==
    /\ metrics.call = "none"
    /\ metrics' = [call |-> "calculate_calmar_ratio",
                   value |-> CalculateCalmarRatio(RiskMetricsOf(returns))]
    /\ RiskFrame

\* RiskMetrics(returns).calculate_var(confidence_level)
VarCall ==
    /\ metrics.call = "none"
    /\ \E c \in ConfidenceLevels :
          metrics' = [call |-> "calculate_var",
                      confidence_level |-> c,
                      value |-> CalculateVar(RiskMetricsOf(returns), c)]
    /\ RiskFrame

\* RiskMetrics(returns).calculate_cvar(confidence_level)
CvarCall ==
    /\ metrics.call = "none"
    /\ \E c \in ConfidenceLevels :
          metrics' = [call |-> "calculate_cvar",
                      confidence_level |-> c,
                      value |-> CalculateCvar(RiskMetricsOf(returns), c)]
    /\ RiskFrame

\* RiskMetrics(returns).get_all_metrics(risk_free_rate)
GetAllMetricsCall ==
    /\ metrics.call = "none"
    /\ \E rf \in RiskFreeRates :
          metrics' = [call |-> "get_all_metrics",
                      risk_free_rate |-> rf,
                      value |-> GetAllMetrics(RiskMetricsOf(returns), rf)]
    /\ RiskFrame

RiskNext ==
    \/ SharpeCall
    \/ SortinoCall
    \/ MaxDrawdownCall
    \/ CalmarCall
    \/ VarCall
    \/ CvarCall
    \/ GetAllMetricsCall

SpecRisk == RiskInit /\ [][RiskNext]_vars

\* ------------------------------------------- the win rate of a trade log

MaxTrades == 3

\* The profit and loss an exit can carry.
Pnls == {R(-5, 1), Zero, R(5, 1)}

\* The records run() appends: an opening has no pnl, an exit carries one.
TradeRecords ==
    {OpenTrade(1, 1, One, R(100, 1), R(100, 1), Zero)}
    \cup {[timestamp |-> 2, side |-> "exit", quantity |-> One,
           price |-> R(100, 1), value |-> R(100, 1), commission |-> Zero,
           pnl |-> p] : p \in Pnls}

TradeLogs == UNION {[1..n -> TradeRecords] : n \in 0..MaxTrades}

\* A Backtester with a trade log, before _calculate_win_rate is called.
WinInit ==
    /\ cfg = ScenarioB
    /\ data = <<>>
    /\ signals = <<>>
    /\ capital = NewBacktester(cfg).capital
    /\ positions = NewBacktester(cfg).positions
    /\ trades \in TradeLogs
    /\ equity_curve = NewBacktester(cfg).equity_curve
    /\ results = NewResults(cfg, <<>>)
    /\ current_position = 0
    /\ i = 0
    /\ pc = "idle"
    /\ runs = 0
    /\ returned = <<>>
    /\ par = <<>>
    /\ price_column = PriceColumn
    /\ returns = <<>>
    /\ metrics = [call |-> "none"]
    /\ opt = <<>>
    /\ sizing = <<>>

\* self._calculate_win_rate()
WinRateCall ==
    /\ metrics.call = "none"
    /\ metrics' = [call |-> "_calculate_win_rate",
                   value |-> CalculateWinRate(trades)]
    /\ UNCHANGED <<backtest, returns, opt, sizing>>

WinNext == WinRateCall

SpecWin == WinInit /\ [][WinNext]_vars

\* ------------------------------- run(), then get_performance_metrics()

\* The configurations whose returns keep their squares within the integers
\* of TLC: no commission, no slippage.
MetricsConfigs ==
    {c \in SmallConfigs : c.commission = Zero /\ c.slippage = Zero}

\* A Backtester as constructed, its strategy and a price table.
MetricsInit ==
    /\ cfg \in MetricsConfigs
    /\ data \in Tables
    /\ signals \in SignalColumns(data)
    /\ capital = NewBacktester(cfg).capital
    /\ positions = NewBacktester(cfg).positions
    /\ trades = NewBacktester(cfg).trades
    /\ equity_curve = NewBacktester(cfg).equity_curve
    /\ results = NewResults(cfg, <<>>)
    /\ current_position = 0
    /\ i = 0
    /\ pc = "idle"
    /\ runs = 0
    /\ returned = <<>>
    /\ par = <<>>
    /\ price_column = PriceColumn
    /\ returns = <<>>
    /\ metrics = [call |-> "none"]
    /\ opt = <<>>
    /\ sizing = <<>>

\* results = backtester.run(data, strategy), from its first line to its
\* return.
RunCall ==
    /\ pc = "idle"
    /\ runs = 0
    /\ LET s == RunBars(cfg, Table, Len(Table))
       IN  /\ SetRunState(s)
           /\ returned' = <<[results |-> WithReturns(FinishResults(s)),
                             trades |-> s.trades]>>
    /\ i' = Len(data)
    /\ runs' = 1
    /\ UNCHANGED <<cfg, data, signals, pc, par, price_column, analytics>>

\* backtester.get_performance_metrics(results)
GetPerformanceMetricsCall ==
    /\ returned # <<>>
    /\ metrics.call = "none"
    /\ metrics' = [call |-> "get_performance_metrics",
                   value |-> GetPerformanceMetrics(cfg, trades, returned[1].results)]
    /\ UNCHANGED <<backtest, returns, opt, sizing>>

MetricsNext == RunCall \/ GetPerformanceMetricsCall

SpecMetrics == MetricsInit /\ [][MetricsNext]_vars

\* ------------------------------------------- the portfolio optimizers

MaxRows == 3

\* The returns of one asset over one period.
AssetReturns == {R(-1, 10), R(1, 10)}

\* Returns matrices: one column per asset, no missing values.
ReturnsMatrices ==
    UNION {[Assets -> [1..n -> AssetReturns]] : n \in 2..MaxRows}

OptimizerRates == {Zero, R(1, 20)}

\* The entries a weight vector handed back by the solver can have.
SolverWeights == {R(-1, 2), Zero, R(1, 2), One}

\* The constraint and the bounds given to minimize(): the weights sum to 1
\* and each lies in [0, 1].
Feasible(x) ==
    /\ RAdd(x["A"], x["B"]) = One
    /\ \A a \in Assets : RLeq(Zero, x[a]) /\ RLeq(x[a], One)

\* What minimize(method='SLSQP') can return: a point and the flag that says
\* whether the solver converged. A converged solve satisfies the constraint
\* and the bounds; a solve that did not converge stops at any point.
SolverOutcomes ==
    {s \in [x : [Assets -> SolverWeights], success : BOOLEAN] :
        s.success => Feasible(s.x)}

\* A PortfolioOptimizer as constructed and a returns matrix.
OptInit ==
    /\ BacktestIdle
    /\ returns \in ReturnsMatrices
    /\ metrics = <<>>
    /\ opt \in {[risk_free_rate |-> r, call |-> "none"] : r \in OptimizerRates}
    /\ sizing = <<>>

\* optimizer.optimize_max_sharpe(returns)
OptimizeMaxSharpeCall ==
    /\ opt.call = "none"
    /\ \E solved \in SolverOutcomes :
          opt' = [risk_free_rate |-> opt.risk_free_rate,
                  call |-> "optimize_max_sharpe",
                  solved |-> solved,
                  result |-> OptimizeMaxSharpe(returns, opt.risk_free_rate, solved)]
    /\ UNCHANGED <<backtest, returns, metrics, sizing>>

\* optimizer.optimize_min_volatility(returns)
OptimizeMinVolatilityCall ==
    /\ opt.call = "none"
    /\ \E solved \in SolverOutcomes :
          opt' = [risk_free_rate |-> opt.risk_free_rate,
                  call |-> "optimize_min_volatility",
                  solved |-> solved,
                  result |-> OptimizeMinVolatility(returns, solved)]
    /\ UNCHANGED <<backtest, returns, metrics, sizing>>

OptNext == OptimizeMaxSharpeCall \/ OptimizeMinVolatilityCall

SpecOpt == OptInit /\ [][OptNext]_vars

\* ------------------------------------------------ risk parity weights

ParityReturns == {R(-1, 10), R(1, 10), R(3, 10)}

\* The variance of a column, as DataFrame.cov has it on the diagonal.
Variance(rets, a) == CovOf(rets[a], rets[a])

\* Returns matrices whose volatilities stand in a rational proportion, or
\* of which one asset does not move.
ParityMatrices ==
    {m \in UNION {[Assets -> [1..n -> ParityReturns]] : n \in 2..MaxRows} :
        \/ Variance(m, "A") = Zero
        \/ HasRoot(RDiv(Variance(m, "B"), Variance(m, "A")))}

ParityInit ==
    /\ BacktestIdle
    /\ returns \in ParityMatrices
    /\ metrics = <<>>
    /\ opt = [call |-> "none"]
    /\ sizing = <<>>

\* optimizer.risk_parity_weights(returns)
RiskParityCall ==
    /\ opt.call = "none"
    /\ opt' = [call |-> "risk_parity_weights"] @@ RiskParityWeights(returns)
    /\ UNCHANGED <<backtest, returns, metrics, sizing>>

ParityNext == RiskParityCall

SpecParity == ParityInit /\ [][ParityNext]_vars

\* ------------------------------------------------ the sizing policies

SizerCapitals == {Zero, R(100, 1)}

SizerPrices == {Zero, R(50, 1)}

\* Annualised volatilities: not supplied, zero, 20%.
SizerVolatilities == {None, Zero, R(1, 5)}

SizerExpectedReturns == {None, R(-1, 10), R(1, 100), R(1, 10)}

WinProbabilities == {R(2, 5), R(9, 10)}

WinLossRatios == {R(-1, 1), Zero, One, R(2, 1)}

\* The fraction of KellyCriterion and of FixedFractional.
Fractions == {R(1, 4), One}

TargetVolatilities == {R(3, 20)}

PortfolioVolatilities == {None, Zero, R(3, 10)}

\* A sizing policy as constructed, and the arguments of one call.
SizerCalls ==
    [policy : {"KellyCriterion"}, fraction : Fractions,
     capital : SizerCapitals, price : SizerPrices,
     volatility : SizerVolatilities, expected_return : SizerExpectedReturns,
     win_probability : WinProbabilities, win_loss_ratio : WinLossRatios]
    \cup
    [policy : {"RiskParity"}, target_volatility : TargetVolatilities,
     capital : SizerCapitals, price : SizerPrices,
     volatility : SizerVolatilities,
     portfolio_volatility : PortfolioVolatilities]
    \cup
    [policy : {"FixedFractional"}, fraction : Fractions,
     capital : SizerCapitals, price : SizerPrices]

SizeInit ==
    /\ BacktestIdle
    /\ returns = <<>>
    /\ metrics = <<>>
    /\ opt = <<>>
    /\ sizing \in {[args |-> a, called |-> FALSE] : a \in SizerCalls}

SizeFrame == UNCHANGED <<backtest, returns, metrics, opt>>

\* KellyCriterion(fraction).calculate_size(...)
KellyCall ==
    /\ ~sizing.called
    /\ sizing.args.policy = "KellyCriterion"
    /\ LET a == sizing.args
       IN  sizing' = [args |-> a, called |-> TRUE]
                     @@ KellySize(a.fraction, a.capital, a.price, a.volatility,
                                  a.expected_return, a.win_probability,
                                  a.win_loss_ratio)
    /\ SizeFrame

\* RiskParity(target_volatility).calculate_size(...)
RiskParitySizeCall ==
    /\ ~sizing.called
    /\ sizing.args.policy = "RiskParity"
    /\ LET a == sizing.args
       IN  sizing' = [args |-> a, called |-> TRUE]
                     @@ RiskParitySize(a.target_volatility, a.capital, a.price,
                                       a.volatility, a.portfolio_volatility)
    /\ SizeFrame

\* FixedFractional(fraction).calculate_size(capital, price)
FixedFractionalCall ==
    /\ ~sizing.called
    /\ sizing.args.policy = "FixedFractional"
    /\ LET a == sizing.args
       IN  sizing' = [args |-> a, called |-> TRUE]
                     @@ FixedFractionalSize(a.fraction, a.capital, a.price)
    /\ SizeFrame

SizeNext == KellyCall \/ RiskParitySizeCall \/ FixedFractionalCall

SpecSize == SizeInit /\ [][SizeNext]_vars

\* ------------------------------------------------------------- the claims

\* A bar of the current run is being or has been processed.
InRun == runs > 0

\* The quantity held: 0 when no position is open.
HeldQuantity ==
    IF PriceColumn \in DOMAIN positions THEN positions[PriceColumn] ELSE Zero

\* A step of the loop of run() that processes bar i + 1.
AtBar == pc = "loop" /\ i < Len(data)

\* C1: at every bar t, once the bar is processed, the portfolio value
\* recorded for t is the capital recorded for t plus the held signed
\* quantity times the price at t (the quantity being 0 when no position is
\* open); the same value is the bar's entry of the equity curve.
C1_PortfolioValueIdentity ==
    (InRun /\ i > 0) =>
        /\ results.capital[i] = capital
        /\ results.portfolio_value[i] =
               RAdd(results.capital[i], RMul(HeldQuantity, data[i].close))

\* C1, witness: a bar was processed while a nonzero position was held.
C1_Witness ==
    /\ InRun
    /\ i > 0
    /\ HeldQuantity # Zero
    /\ results.portfolio_value[i] # results.capital[i]

\* C2: at every bar where a position is held at the start of the bar and
\* the signal is 0, the position is closed: afterwards the positions mapping
\* is empty, the recorded flag is 0, the capital has been credited
\* |quantity| * execution price - commission, and one 'exit' trade has been
\* appended.
C2_ZeroSignalCloses ==
    [][(AtBar /\ current_position # 0 /\ signals[i + 1] = 0) =>
          LET quantity == HeldQuantity
              execution_price ==
                  CalculateExecutionPrice(cfg, data[i + 1].close,
                                          IF quantity.n > 0 THEN "sell" ELSE "buy")
              trade_value == RMul(RAbs(quantity), execution_price)
              commission_cost == CalculateCommissionCost(cfg, trade_value)
          IN  /\ DOMAIN positions' = {}
              /\ results'.position[i + 1] = 0
              /\ capital' = RAdd(capital, RSub(trade_value, commission_cost))
              /\ Len(trades') = Len(trades) + 1
              /\ trades'[Len(trades')].side = "exit"]_vars

\* C3: an opening from FLAT executes only if capital >= trade value +
\* commission; when the capital is insufficient the bar changes neither the
\* capital, nor the positions, nor the trade log, and the flag stays FLAT.
C3_InsufficientCapitalSkips ==
    [][(AtBar /\ current_position = 0 /\ signals[i + 1] # 0) =>
          LET signal == signals[i + 1]
              execution_price ==
                  RMul(data[i + 1].close,
                       IF signal > 0 THEN RAdd(One, cfg.slippage)
                                     ELSE RSub(One, cfg.slippage))
              quantity == CalculatePositionSize(cfg, signal, execution_price)
              trade_value == RMul(RAbs(quantity), execution_price)
              commission_cost == RMul(trade_value, cfg.commission)
              covered == RLeq(RAdd(trade_value, commission_cost), capital)
          IN  /\ (Len(trades') > Len(trades) \/ current_position' # 0) => covered
              /\ ~covered =>
                    /\ capital' = capital
                    /\ positions' = positions
                    /\ trades' = trades
                    /\ current_position' = 0
                    /\ results'.position[i + 1] = 0]_vars

\* C3, witness: a nonzero signal arrived while FLAT and was skipped.
C3_Witness ==
    /\ pc = "loop"
    /\ i > 0
    /\ signals[i] # 0
    /\ trades = <<>>
    /\ current_position = 0
    /\ capital = cfg.initial_capital

\* C4: the position changes only at a bar whose signal differs from the held
\* position; a bar whose signal equals the current flag leaves capital,
\* positions and trade log unchanged.
C4_SameSignalNoChange ==
    [][AtBar =>
          /\ current_position' # current_position =>
                 signals[i + 1] # current_position
          /\ signals[i + 1] = current_position =>
                 /\ capital' = capital
                 /\ positions' = positions
                 /\ trades' = trades
                 /\ current_position' = current_position]_vars

\* C4, witness: a bar repeated the signal of the open position.
C4_Witness ==
    /\ InRun
    /\ i > 1
    /\ results.position[i - 1] # 0
    /\ signals[i] = results.position[i - 1]
    /\ Len(trades) = 1

\* Every signal of the table is 0.
AllFlat == \A k \in 1..Len(signals) : signals[k] = 0

\* C5 (Scenario A): if the signal is 0 at every bar, then in every row of
\* the results table portfolio value = capital = initial capital and the
\* flag is 0, and the trade log is empty.
C5_FlatRunKeepsCapital ==
    (AllFlat /\ InRun) =>
        /\ \A k \in 1..Len(data) :
              /\ results.portfolio_value[k] = cfg.initial_capital
              /\ results.capital[k] = cfg.initial_capital
              /\ results.position[k] = 0
        /\ \A k \in 1..Len(equity_curve) : equity_curve[k] = cfg.initial_capital
        /\ capital = cfg.initial_capital
        /\ trades = <<>>

\* C5, witness: a run over several bars with signal 0 throughout has
\* returned.
C5_Witness ==
    /\ AllFlat
    /\ Len(data) >= 2
    /\ Len(returned) >= 1
    /\ Len(returned[1].results.equity_curve) = Len(data)

\* C6: every run starts from the initial run state (capital, positions,
\* trades, equity curve), so every later run of the same Backtester on the
\* same inputs returns the results table and trade log of the first.
C6_RerunReproducible ==
    /\ (pc = "loop" /\ i = 0) =>
          /\ capital = cfg.initial_capital
          /\ DOMAIN positions = {}
          /\ trades = <<>>
          /\ equity_curve = <<>>
    /\ \A r \in 1..Len(returned) : returned[r] = returned[1]

\* C6, witness: a second run has returned after a first run that traded.
C6_Witness ==
    /\ Len(returned) >= 2
    /\ returned[1].trades # <<>>
    /\ returned[2].results.capital # [k \in 1..Len(data) |-> cfg.initial_capital]

\* The equity curve holds one entry per processed bar, the bar's recorded
\* portfolio value.
EquitySampledPerBar ==
    InRun =>
        /\ Len(equity_curve) = i
        /\ \A k \in 1..i : equity_curve[k] = results.portfolio_value[k]

\* C8: after k bars the equity curve has k entries, the k-th being the
\* portfolio value of bar k; a bar appends exactly one entry and no entry
\* already appended changes during the run.
C8_EquityCurveAppendOnly ==
    [][/\ EquitySampledPerBar
       /\ EquitySampledPerBar'
       /\ AtBar => Len(equity_curve') = Len(equity_curve) + 1
       /\ pc = "loop" =>
             \A k \in 1..Len(equity_curve) :
                 /\ k <= Len(equity_curve')
                 /\ equity_curve'[k] = equity_curve[k]]_vars

\* C8, witness: two bars sampled, with different portfolio values.
C8_Witness ==
    /\ InRun
    /\ i >= 2
    /\ Len(equity_curve) = i
    /\ equity_curve[1] # equity_curve[2]
    /\ equity_curve[2] # capital

\* The records of a trade log are in the order of their timestamps.
Chronological(log) ==
    \A a, b \in 1..Len(log) : a <= b => log[a].timestamp <= log[b].timestamp

\* C9: during a run the trade log only grows at its end (no record is
\* modified or removed), and its timestamps are non-decreasing.
C9_TradeLogAppendOnly ==
    [][/\ Chronological(trades)
       /\ Chronological(trades')
       /\ pc = "loop" =>
             /\ Len(trades') >= Len(trades)
             /\ \A k \in 1..Len(trades) : trades'[k] = trades[k]]_vars

\* C9, witness: a record of the log has outlived later bars of its run.
C9_Witness ==
    /\ pc = "loop"
    /\ trades # <<>>
    /\ i >= trades[1].timestamp + 2

\* C10: on a successful opening at price p with signal s and sized quantity
\* q, the execution price is p(1 + slippage) for s > 0 and p(1 - slippage)
\* for s < 0, trade value = |q| * execution price, commission = trade value
\* * rate, the capital decreases by exactly trade value + commission, and
\* the trade's side is 'buy' iff s > 0.  Scenario B: capital 100000, price
\* 100, 25000 sized: execution price 100.05, capital reduced by 25000 plus
\* the commission of 25.
C10_OpeningFill ==
    [][(AtBar /\ Len(trades') = Len(trades) + 1
              /\ trades'[Len(trades')].side # "exit") =>
          LET p == data[i + 1].close
              s == signals[i + 1]
              q == positions'[PriceColumn]
              t == trades'[Len(trades')]
          IN  /\ s # 0
              /\ s > 0 => t.price = RMul(p, RAdd(One, cfg.slippage))
              /\ s < 0 => t.price = RMul(p, RSub(One, cfg.slippage))
              /\ t.quantity = RAbs(q)
              /\ t.value = RMul(RAbs(q), t.price)
              /\ t.commission = RMul(t.value, cfg.commission)
              /\ capital' = RSub(capital, RAdd(t.value, t.commission))
              /\ t.side = "buy" <=> s > 0
              /\ t.side \in {"buy", "sell"}
              /\ (cfg = ScenarioB /\ p = R(100, 1) /\ s > 0) =>
                    /\ t.price = R(10005, 100)
                    /\ t.value = R(25000, 1)
                    /\ capital' = RSub(R(75000, 1), t.commission)
                    /\ t.commission = R(25, 1)]_vars

\* C10, witness: the opening of Scenario B has executed.
C10_Witness ==
    /\ cfg = ScenarioB
    /\ Len(trades) = 1
    /\ trades[1].side = "buy"
    /\ trades[1].price = R(10005, 100)
    /\ capital = R(74975, 1)

\* C7: two backtests, each with its own Backtester, sharing only the price
\* table, with their bars interleaved in any order: each returns the results
\* table and the trade log it returns when it runs alone.
C7_InterleavedBacktestsIndependent ==
    \A b \in DOMAIN par :
        par[b].pc = "done" =>
            par[b].out = RunAlone(par[b].cfg, WithSignals(data, par[b].signals))

\* C7, witness: both backtests have returned, their bars were interleaved,
\* both traded, and their results differ.
C7_Witness ==
    /\ DOMAIN par = Backtesters
    /\ \A b \in Backtesters :
          /\ par[b].pc = "done"
          /\ par[b].mixed
          /\ par[b].out.trades # <<>>
    /\ par[1].out # par[2].out

C12_PositionsNonzero ==
    \A c \in DOMAIN positions : positions[c] # Zero

\* C13: run() with a price_column that is not a column of the price table
\* raises for every table, the empty one included, and never returns a
\* results table.
C13_UnknownColumnNeverReturns ==
    price_column \notin DataColumns => returned = <<>>

\* The series RiskMetrics computes on.
Stripped == DropNa(returns)

\* C16: for a return series that is empty, or empty once its NaN are
\* stripped, every entry of get_all_metrics is 0.
C16_EmptySeriesAllZero ==
    (metrics.call = "get_all_metrics" /\ Stripped = <<>>) =>
        /\ metrics.value.sharpe_ratio = Surd(0, Zero)
        /\ metrics.value.sortino_ratio = Surd(0, Zero)
        /\ metrics.value.max_drawdown = Zero
        /\ metrics.value.calmar_ratio = Zero
        /\ metrics.value.var_95 = Zero
        /\ metrics.value.cvar_95 = Zero
        /\ metrics.value.volatility = Surd(0, Zero)
        /\ metrics.value.annual_return = Zero

\* The series has values and they are all equal.
ZeroVariance ==
    /\ Stripped # <<>>
    /\ \A k \in 1..Len(Stripped) : Stripped[k] = Stripped[1]

\* C17: for a return series with zero variance (all returns equal, positive,
\* zero or negative), calculate_sharpe_ratio, calculate_sortino_ratio and
\* calculate_calmar_ratio return 0.
C17_ZeroVarianceRatiosZero ==
    ZeroVariance =>
        /\ metrics.call \in {"calculate_sharpe_ratio", "calculate_sortino_ratio"} =>
               metrics.value = Surd(0, Zero)
        /\ metrics.call = "calculate_calmar_ratio" => metrics.value = Zero

\* The cumulative-return index after bar k: the product of (1 + return).
RECURSIVE ReturnIndex(_)
ReturnIndex(xs) ==
    IF xs = <<>> THEN One
    ELSE RMul(ReturnIndex(SubSeq(xs, 1, Len(xs) - 1)), RAdd(One, xs[Len(xs)]))

IndexAt(k) == ReturnIndex(SubSeq(Stripped, 1, k))

\* The running peak of the index at bar k.
PeakAt(k) ==
    CHOOSE p \in {IndexAt(j) : j \in 1..k} :
        \A j \in 1..k : RLeq(IndexAt(j), p)

\* The fall from the running peak at bar k, as a fraction of the peak.
FallAt(k) == RDiv(RSub(PeakAt(k), IndexAt(k)), PeakAt(k))

AllAbove(bound) ==
    \A k \in 1..Len(Stripped) : RLt(bound, Stripped[k])

AllNonNegative ==
    \A k \in 1..Len(Stripped) : RLeq(Zero, Stripped[k])

TailPercentile(confidence_level) ==
    Percentile(Stripped, RMul(RSub(One, confidence_level), R(100, 1)))

C19_TailBeyondVar ==
    /\ metrics.call = "calculate_cvar"
    /\ Stripped # <<>>
    /\ RLt(TailPercentile(metrics.confidence_level), Zero)
    /\ RLt(CalculateVar(returns, metrics.confidence_level), metrics.value)

\* The trades of the log that carry a positive, and a nonzero, pnl.
Winners == {k \in 1..Len(trades) : "pnl" \in DOMAIN trades[k] /\ trades[k].pnl.n > 0}

Decided == {k \in 1..Len(trades) : "pnl" \in DOMAIN trades[k] /\ trades[k].pnl.n # 0}

\* C15: win_rate is the number of trades with pnl > 0 over the number of
\* trades that carry a nonzero pnl; it is 0 when the log has fewer than 2
\* trades or no trade carries a nonzero pnl; it lies in [0, 1].
C15_WinRate ==
    metrics.call = "_calculate_win_rate" =>
        /\ (Len(trades) < 2 \/ Decided = {}) => metrics.value = Zero
        /\ (Len(trades) >= 2 /\ Decided # {}) =>
              metrics.value = R(Cardinality(Winners), Cardinality(Decided))
        /\ RLeq(Zero, metrics.value) /\ RLeq(metrics.value, One)

\* A log with an opening, a winning exit and a losing exit: win rate 1/2.
C15_Witness ==
    /\ metrics.call = "_calculate_win_rate"
    /\ Len(trades) = 3
    /\ Cardinality(Winners) = 1
    /\ Cardinality(Decided) = 2
    /\ metrics.value = R(1, 2)

\* The keys of the RiskMetrics bundle.
BundleKeys ==
    {"sharpe_ratio", "sortino_ratio", "max_drawdown", "calmar_ratio",
     "var_95", "cvar_95", "volatility", "annual_return"}

\* The returns of the returned table that are not missing.
AvailableReturns == DropNa(returned[1].results.returns)

\* C14: get_performance_metrics returns the empty mapping when the results
\* table has no non-missing return, as with zero bars or a single bar;
\* otherwise it returns the RiskMetrics bundle of the non-missing returns
\* plus total_return, num_trades and win_rate.
C14_MetricsOrEmpty ==
    metrics.call = "get_performance_metrics" =>
        /\ Len(data) <= 1 => AvailableReturns = <<>>
        /\ AvailableReturns = <<>> => metrics.value = EmptyMapping
        /\ AvailableReturns # <<>> =>
              LET portfolio_value == returned[1].results.portfolio_value
                  final == portfolio_value[Len(portfolio_value)]
              IN  /\ DOMAIN metrics.value =
                         BundleKeys \cup {"total_return", "num_trades", "win_rate"}
                  /\ \A key \in BundleKeys :
                        metrics.value[key] = GetAllMetrics(AvailableReturns, Zero)[key]
                  /\ metrics.value.total_return =
                         RMul(RSub(RDiv(final, cfg.initial_capital), One), R(100, 1))
                  /\ metrics.value.num_trades = Len(trades)
                  /\ metrics.value.win_rate = CalculateWinRate(trades)
                  /\ RLeq(Zero, metrics.value.win_rate)
                  /\ RLeq(metrics.value.win_rate, One)

\* Metrics of a run over several bars that traded and ended away from the
\* initial capital.
C14_Witness ==
    /\ metrics.call = "get_performance_metrics"
    /\ Len(data) >= 2
    /\ AvailableReturns # <<>>
    /\ metrics.value.num_trades = 1
    /\ metrics.value.total_return # Zero
    /\ metrics.value.annual_return # Zero

\* Metrics of a run over a single bar: the empty mapping.
C14_SingleBarEmpty ==
    /\ metrics.call = "get_performance_metrics"
    /\ Len(data) = 1
    /\ metrics.value = EmptyMapping

\* What the optimizer that was called returns for a solver outcome.
ResultFor(solved) ==
    IF opt.call = "optimize_max_sharpe"
    THEN OptimizeMaxSharpe(returns, opt.risk_free_rate, solved)
    ELSE OptimizeMinVolatility(returns, solved)

\* C20: optimize_max_sharpe and optimize_min_volatility surface the solver's
\* convergence flag in their result: the result of a solve that did not
\* converge is never one that a converged solve returns as well.
C20_ConvergenceSurfaced ==
    (opt.call \in {"optimize_max_sharpe", "optimize_min_volatility"}
        /\ ~opt.solved.success) =>
        \A solved \in SolverOutcomes :
            solved.success => ResultFor(solved) # opt.result

\* The covariance matrix is singular although every asset moves.
SingularWithPositiveDiagonal ==
    /\ Determinant(CalculateCovarianceMatrix(returns)) = Zero
    /\ \A a \in Assets : RLt(Zero, Variance(returns, a))

\* The weights proportional to 1/volatility, stated through the variances:
\* the weights sum to 1 and w_a^2 * variance_a is the same for every asset.
InverseVolatility(w) ==
    /\ RAdd(w["A"], w["B"]) = One
    /\ \A a \in Assets : RLt(Zero, w[a])
    /\ RMul(RMul(w["A"], w["A"]), Variance(returns, "A"))
           = RMul(RMul(w["B"], w["B"]), Variance(returns, "B"))

\* C21: risk_parity_weights needs no matrix inversion: for a singular
\* covariance matrix whose diagonal entries are all positive it returns the
\* inverse-volatility weights instead of failing.
C21_SingularStillWeights ==
    (opt.call = "risk_parity_weights" /\ SingularWithPositiveDiagonal) =>
        /\ "raised" \notin DOMAIN opt
        /\ "weights" \in DOMAIN opt
        /\ InverseVolatility(opt.weights)

\* The weight vector the call returned, if it returned one.
ReturnedWeights ==
    IF opt.call = "risk_parity_weights" THEN opt.weights ELSE opt.result.weights

ReturnsWeights ==
    \/ opt.call \in {"optimize_max_sharpe", "optimize_min_volatility"}
    \/ opt.call = "risk_parity_weights" /\ "weights" \in DOMAIN opt

\* The weights sum to 1 within 1e-6 and each lies in [0, 1].
WithinBudget(w) ==
    /\ RLeq(RAbs(RSub(RAdd(w["A"], w["B"]), One)), R(1, 1000000))
    /\ \A a \in Assets : RLeq(Zero, w[a]) /\ RLeq(w[a], One)

\* C22: every weight vector returned by optimize_max_sharpe,
\* optimize_min_volatility or risk_parity_weights sums to 1 within 1e-6 and
\* has every weight in [0, 1], whatever the solver's termination status.
C22_WeightsWithinBudget ==
    ReturnsWeights => WithinBudget(ReturnedWeights)

\* The returns matrices that differ from the one at hand in the column of
\* asset a only, and in which a is more volatile.
WithMoreVolatile(a) ==
    {m \in {[returns EXCEPT ![a] = col] :
               col \in [1..Len(returns[a]) -> ParityReturns]} :
        /\ m \in ParityMatrices
        /\ RLt(Variance(returns, a), Variance(m, a))}

\* C23: the weights of risk_parity_weights are strictly decreasing in
\* volatility: of two assets of one returns matrix the more volatile has
\* the smaller weight, and making one asset more volatile while the other
\* stays as it is strictly lowers that asset's weight.
C23_WeightsDecreaseInVolatility ==
    (opt.call = "risk_parity_weights" /\ "weights" \in DOMAIN opt) =>
        /\ \A a, b \in Assets :
              (RLt(Variance(returns, b), Variance(returns, a))
                  /\ RLt(Zero, Variance(returns, b))) =>
                  RLt(opt.weights[a], opt.weights[b])
        /\ \A a \in Assets : \A m \in WithMoreVolatile(a) :
              "weights" \in DOMAIN RiskParityWeights(m) =>
                  RLt(RiskParityWeights(m).weights[a], opt.weights[a])

\* Asset A is the more volatile one and has the smaller weight, and a
\* matrix in which B is more volatile than here gives B a smaller weight.
C23_Witness ==
    /\ opt.call = "risk_parity_weights"
    /\ "weights" \in DOMAIN opt
    /\ RLt(Variance(returns, "B"), Variance(returns, "A"))
    /\ RLt(Zero, Variance(returns, "B"))
    /\ RLt(opt.weights["A"], opt.weights["B"])
    /\ \E m \in WithMoreVolatile("B") :
          /\ "weights" \in DOMAIN RiskParityWeights(m)
          /\ RLt(RiskParityWeights(m).weights["B"], opt.weights["B"])

\* C24: no sizing policy raises for a numeric edge case: for price = 0
\* KellyCriterion, RiskParity and FixedFractional calculate_size each return
\* a neutral value instead of raising a division error.
C24_ZeroPriceNeutral ==
    (sizing.called /\ sizing.args.price = Zero) =>
        /\ "raised" \notin DOMAIN sizing
        /\ "value" \in DOMAIN sizing
        /\ sizing.value \in {Zero, Surd(0, Zero)}

\* x limited to [0, 1/2].
UpToHalf(x) ==
    IF RLt(x, Zero) THEN Zero ELSE IF RLt(R(1, 2), x) THEN R(1, 2) ELSE x

\* The Kelly fraction of the call at hand as the specification gives it,
\* for the arguments at which its formulas are defined.
KellyOfCall ==
    LET a == sizing.args
    IN  IF a.expected_return # None /\ a.volatility # None
        THEN UpToHalf(RMul(RDiv(a.expected_return,
                                RMul(a.volatility, a.volatility)),
                           a.fraction))
        ELSE IF RLeq(a.win_loss_ratio, Zero)
        THEN Zero
        ELSE RMul(UpToHalf(RDiv(RSub(RMul(a.win_probability, a.win_loss_ratio),
                                     RSub(One, a.win_probability)),
                                a.win_loss_ratio)),
                  a.fraction)

KellyFormulaDefined ==
    (sizing.args.expected_return # None /\ sizing.args.volatility # None) =>
        sizing.args.volatility # Zero

C25_FromVolatility ==
    /\ sizing.called
    /\ sizing.args.policy = "KellyCriterion"
    /\ sizing.args.expected_return # None
    /\ sizing.args.volatility # None
    /\ RLt(Zero, sizing.args.price)
    /\ RLt(Zero, sizing.value)
    /\ RLt(RMul(sizing.value, sizing.args.price),
           RMul(sizing.args.capital, R(1, 2)))

\* C26: capital is never negative: the capital of the Backtester and every
\* capital recorded for a bar are >= 0 at every point of every run.
C26_CapitalNeverNegative ==
    /\ RLeq(Zero, capital)
    /\ \A k \in 1..i : RLeq(Zero, results.capital[k])

\* An opening trade with a commission has taken capital, and what is left
\* would not pay for the same trade again.
C26_Witness ==
    /\ pc = "loop"
    /\ Len(trades) = 1
    /\ RLt(Zero, trades[1].commission)
    /\ RLt(capital, cfg.initial_capital)
    /\ RLt(capital, RAdd(trades[1].value, trades[1].commission))

\* The records of the trade log that open a position, and those that exit.
OpenRecords == {k \in 1..Len(trades) : trades[k].side \in {"buy", "sell"}}

ExitRecords == {k \in 1..Len(trades) : trades[k].side = "exit"}

\* C27: the trade log alternates between opens and exits, starting with an
\* open; at every point of a run the number of open records minus the
\* number of exit records is 0 or 1, and it is 1 exactly when the positions
\* mapping is not empty and the position flag is nonzero.
C27_LogAlternates ==
    /\ \A k \in 1..Len(trades) : (k \in OpenRecords) <=> (k % 2 = 1)
    /\ \A k \in 1..Len(trades) : (k \in ExitRecords) <=> (k % 2 = 0)
    /\ Cardinality(OpenRecords) - Cardinality(ExitRecords) \in {0, 1}
    /\ (Cardinality(OpenRecords) - Cardinality(ExitRecords) = 1)
           <=> (DOMAIN positions # {} /\ current_position # 0)

\* A position is held and a further nonzero signal has been processed
\* without a second open record.
C27_Witness ==
    /\ pc = "loop"
    /\ i >= 2
    /\ Table[i].signal # 0
    /\ Table[i - 1].signal # 0
    /\ trades # <<>>
    /\ trades[1].timestamp < i
    /\ Cardinality(OpenRecords) = 1
    /\ DOMAIN positions # {}
    /\ current_position # 0

\* A position is held and the signal of the bar about to be processed is
\* the opposite side.
ReversalAhead ==
    /\ AtBar
    /\ current_position # 0
    /\ signals[i + 1] = -current_position

\* C28: a direct reversal signal is ignored: at a bar where a position is
\* held and the signal is nonzero and opposite to the held side, capital,
\* positions and the trade log are unchanged and the position flag recorded
\* for the bar stays at the held side.
C28_ReversalIgnored ==
    [][ReversalAhead =>
          /\ capital' = capital
          /\ positions' = positions
          /\ trades' = trades
          /\ current_position' = current_position
          /\ results'.position[i + 1] = current_position
          /\ results'.capital[i + 1] = capital]_vars

\* A bar with the opposite signal has been processed while a position was
\* held: the position opened earlier is still the one held.
C28_Witness ==
    /\ pc = "loop"
    /\ i >= 2
    /\ results.position[i - 1] # 0
    /\ signals[i] = -results.position[i - 1]
    /\ results.position[i] = results.position[i - 1]
    /\ Len(trades) = 1
    /\ trades[1].timestamp < i
    /\ trades[1].side = (IF results.position[i] > 0 THEN "buy" ELSE "sell")

\* The step processes a bar and opens a position at it.
OpensAtBar == AtBar /\ Len(trades') = Len(trades) + 1

\* What the opening at the bar costs: the commission and the slippage on
\* the traded quantity.
CostOfFill ==
    RAdd(trades'[Len(trades')].commission,
         RMul(RMul(RAbs(positions'[PriceColumn]), data[i + 1].close),
              cfg.slippage))

\* C29: a fill neither creates nor destroys value beyond its costs: for an
\* opening on either side the portfolio value recorded at the entry bar is
\* the capital before the trade minus the commission and minus the
\* slippage cost |q| * price * slippage.
C29_FillConservesValue ==
    [][OpensAtBar =>
          results'.portfolio_value[i + 1] = RSub(capital, CostOfFill)]_vars

====
